---- MODULE Spec2Model ----
(***************************************************************************)
(* Model of the target-size-constrained PDF compressor                     *)
(* (pdfcompress/compressor.py, analyzer.py, utils.py).                     *)
(*                                                                         *)
(* One call of PDFCompressor.compress() is a sequential process whose      *)
(* position is pc.  The document-model provider (fitz) and the image codec *)
(* (Pillow) are the environment: whether an open, extract, decode, replace *)
(* or save fails, the length of a new encoding and the size of a saved     *)
(* file are chosen nondeterministically.                                   *)
(*                                                                         *)
(* Sizes are byte counts in an abstract unit.  A float the code computes   *)
(* as a quotient a / b is kept as the pair <<a, b>> and compared by cross  *)
(* multiplication.  An Optional value is <<>> (None) or <<v>>.             *)
(*                                                                         *)
(* Spec is the compress() call.  SpecProfile runs the analyzer on its own  *)
(* on what the provider may report of an opened document, and SpecLabel    *)
(* adds calls of the quality scorer at its thresholds to the compress()    *)
(* calls; the arguments and the value returned are args and ret.           *)
(* SpecImages runs the analyzer's image scan on small documents and        *)
(* SpecScaled adds the scaling step of one image to the compress() calls.  *)
(* SpecWeb is the job tracker of the web application (web/app.py): the     *)
(* request handlers and the background thread of each job.                 *)
(***************************************************************************)
EXTENDS Integers, Sequences, FiniteSets, TLC

\* ------------------------------------------------------------- bounds
\* Largest input file size; a saved file has a size in 1 .. MaxSize + 1.
MaxSize == 4
\* Byte length of every image stream of the input; a new lossy encoding has
\* a length in 1 .. MaxImgLen.
MaxImgLen == 3
\* The ghost counters of provider calls saturate at this value.
MaxCount == 1
\* Most images of a document whose profile is computed on its own.
MaxImages == 5
\* Most bytes the provider extracts from the images of such a document.
MaxImageBytes == 18
\* Most pages of such a document.
MaxPages == 2
\* Largest output size the quality label is computed for on its own.
MaxScoredSize == 12

\* The image objects of a scanned document and the references of one page.
MaxXref == 2

MaxRefs == 2

\* The jobs the web application is asked to start.
MaxJobs == 2

\* -------------------------------------------------- program constants
QUALITY_LEVELS == <<95, 85, 75, 65, 55, 45, 35, 25>>

DPI_LEVELS == <<300, 200, 150, 120, 100, 72>>

\* Faulty variant: high_clarity is given a budget of twelve attempts.
tolerance_config_long_budget ==
    [strict       |-> [max_iterations |-> 10, min_quality |-> 25, min_dpi |-> 72],
     balanced     |-> [max_iterations |-> 6,  min_quality |-> 45, min_dpi |-> 100],
     high_clarity |-> [max_iterations |-> 12, min_quality |-> 65, min_dpi |-> 150]]

tolerance_config ==
    [strict       |-> [max_iterations |-> 10, min_quality |-> 25, min_dpi |-> 72],
     balanced     |-> [max_iterations |-> 6,  min_quality |-> 45, min_dpi |-> 100],
     high_clarity |-> [max_iterations |-> 4,  min_quality |-> 65, min_dpi |-> 150]]

\* The names the caller may pass; "other" stands for any unrecognized name.
ToleranceNames == {"strict", "balanced", "high_clarity", "other"}

\* -------------------------------------------------------- input files
\* A document: per page the xrefs of the images it references, the number
\* of text characters of the whole document, and the xrefs whose stream the
\* provider cannot extract (extract_image raises or returns nothing).
DocImages == [pages |-> <<<<1>>>>, text |-> 0, unextractable |-> {}]

DocText == [pages |-> <<<<>>>>, text |-> 501, unextractable |-> {}]

DocPlain == [pages |-> <<<<>>>>, text |-> 0, unextractable |-> {}]

\* Two pages share image 1; image 2 cannot be extracted.
DocShared == [pages |-> <<<<2, 1>>, <<1>>>>, text |-> 0, unextractable |-> {2}]

Docs == {DocImages, DocText, DocPlain, DocShared}

\* The sizes of the input file and the targets a run is explored on.
OriginalSizes == {MaxSize - 1, MaxSize}

TargetSizes == {1, MaxSize}

Xrefs(d) == UNION {{d.pages[p][i] : i \in 1..Len(d.pages[p])} : p \in 1..Len(d.pages)}

\* The image streams of the input file: every image has MaxImgLen bytes.
OrigStream(x) == [len |-> MaxImgLen, enc |-> "orig", xref |-> x, at |-> <<0, 0>>]

\* ---------------------------------------------------------- utilities
Min(a, b) == IF a <= b THEN a ELSE b

Max(a, b) == IF a >= b THEN a ELSE b

Inc(n) == Min(n + 1, MaxCount)

\* utils.calculate_compression_ratio: 1 - compressed/original as a quotient.
calculate_compression_ratio(original, compressed) ==
    IF original = 0 THEN <<0, 1>> ELSE <<original - compressed, original>>

ZeroRatio == <<0, 1>>

\* Faulty variant: the thresholds of the label are inclusive.
estimate_quality_score_inclusive(original, compressed, image_percentage, compression_level) ==
    LET num == IF original > 0 THEN compressed ELSE 1
        den == IF original > 0 THEN original ELSE 1
    IN  IF 10 * num >= 7 * den THEN "Excellent"
        ELSE IF 10 * num >= 5 * den THEN "Good"
        ELSE IF 10 * num >= 3 * den THEN "Fair"
        ELSE IF image_percentage[1] > 70 * image_percentage[2]
                /\ compression_level < 50
             THEN "Acceptable"
        ELSE "Reduced"

\* utils.estimate_quality_score; image_percentage is a quotient <<n, d>>.
estimate_quality_score(original, compressed, image_percentage, compression_level) ==
    LET num == IF original > 0 THEN compressed ELSE 1
        den == IF original > 0 THEN original ELSE 1
    IN  IF 10 * num > 7 * den THEN "Excellent"
        ELSE IF 10 * num > 5 * den THEN "Good"
        ELSE IF 10 * num > 3 * den THEN "Fair"
        ELSE IF image_percentage[1] > 70 * image_percentage[2]
                /\ compression_level < 50
             THEN "Acceptable"
        ELSE "Reduced"

\* The constructor CompressionResult(...).  iterations defaults to 1.  The
\* field attempt is not a field of the code's record: it tags the result with
\* the ordinal of the _compress_with_settings call that built it (0 when no
\* such call did), so that two attempts with equal fields stay apart.
CompressionResult(success, original, compressed, ratio, label, pages, imgs, target, achieved, err, k) ==
    [success |-> success, original_size |-> original,
     compressed_size |-> compressed, compression_ratio |-> ratio,
     quality_estimate |-> label, pages_processed |-> pages,
     images_processed |-> imgs, target_size |-> target,
     target_achieved |-> achieved, iterations |-> 1, error |-> err,
     attempt |-> k]

\* Faulty variant: a failed result that reports nothing written instead of the
\* original's size.
FailedResultZeroSize(original, target, err, k) ==
    CompressionResult(FALSE, original, 0, ZeroRatio, "N/A", 0, 0,
                      target, FALSE, err, k)

\* The failed result every except branch and the fall-through of the grid
\* search build: sizes are the original's, nothing was processed.
FailedResult(original, target, err, k) ==
    CompressionResult(FALSE, original, original, ZeroRatio, "N/A", 0, 0,
                      target, FALSE, err, k)

\* ----------------------------------------------------------- analyzer
\* The image references of a document in page order: <<page index, xref>>.
RECURSIVE PageRefs(_, _, _)
PageRefs(d, p, i) ==
    IF p > Len(d.pages) THEN <<>>
    ELSE IF i > Len(d.pages[p]) THEN PageRefs(d, p + 1, 1)
    ELSE <<[page |-> p, xref |-> d.pages[p][i]]>> \o PageRefs(d, p, i + 1)

\* Faulty variant: the scan keeps no set of the xrefs it has seen and records
\* an image once per reference.
RECURSIVE analyze_images_per_reference(_, _, _, _, _)
analyze_images_per_reference(refs, extractable, images, total_bytes, seen_xrefs) ==
    IF refs = <<>> THEN [images |-> images, total_bytes |-> total_bytes]
    ELSE LET r == Head(refs)
         IN  IF r.xref \in extractable
             THEN analyze_images_per_reference(Tail(refs), extractable,
                      Append(images, [page_number |-> r.page,
                                      size_bytes |-> OrigStream(r.xref).len,
                                      xref |-> r.xref]),
                      total_bytes + OrigStream(r.xref).len, seen_xrefs)
             ELSE analyze_images_per_reference(Tail(refs), extractable, images,
                                               total_bytes, seen_xrefs)

\* PDFAnalyzer._analyze_images: one ImageInfo per distinct xref that can be
\* extracted, in order of first reference; refs is what is left to scan.
RECURSIVE analyze_images(_, _, _, _, _)
analyze_images(refs, extractable, images, total_bytes, seen_xrefs) ==
    IF refs = <<>> THEN [images |-> images, total_bytes |-> total_bytes]
    ELSE LET r == Head(refs)
         IN  IF r.xref \in seen_xrefs
             THEN analyze_images(Tail(refs), extractable, images, total_bytes,
                                 seen_xrefs)
             ELSE IF r.xref \in extractable
             THEN analyze_images(Tail(refs), extractable,
                      Append(images, [page_number |-> r.page,
                                      size_bytes |-> OrigStream(r.xref).len,
                                      xref |-> r.xref]),
                      total_bytes + OrigStream(r.xref).len,
                      seen_xrefs \cup {r.xref})
             ELSE analyze_images(Tail(refs), extractable, images, total_bytes,
                                 seen_xrefs \cup {r.xref})

\* Faulty variant: the thresholds of the content class are inclusive.
determine_pdf_type_inclusive(image_percentage, text_count, page_count) ==
    LET chars_ge_500 == IF page_count > 0 THEN text_count >= 500 * page_count
                        ELSE FALSE
    IN  IF image_percentage[1] >= 70 * image_percentage[2] THEN "image-heavy"
        ELSE IF image_percentage[1] <= 20 * image_percentage[2] /\ chars_ge_500
             THEN "text-heavy"
        ELSE "mixed"

\* PDFAnalyzer._determine_pdf_type; image_percentage is a quotient <<n, d>>
\* and chars_per_page > 500 is text_count > 500 * page_count.
determine_pdf_type(image_percentage, text_count, page_count) ==
    LET chars_gt_500 == IF page_count > 0 THEN text_count > 500 * page_count
                        ELSE FALSE
    IN  IF image_percentage[1] > 70 * image_percentage[2] THEN "image-heavy"
        ELSE IF image_percentage[1] < 20 * image_percentage[2] /\ chars_gt_500
             THEN "text-heavy"
        ELSE "mixed"

\* analyze(), line 119: total_image_bytes / file_size * 100 as a quotient.
ImagePercentage(total_image_bytes, file_size) ==
    IF file_size > 0 THEN <<total_image_bytes * 100, file_size>> ELSE <<0, 1>>

\* PDFAnalyzer.analyze on a document that opens and parses.
AnalysisOk(d, file_size) ==
    LET im  == analyze_images(PageRefs(d, 1, 1), Xrefs(d) \ d.unextractable,
                              <<>>, 0, {})
        pct == ImagePercentage(im.total_bytes, file_size)
    IN  [file_size |-> file_size, page_count |-> Len(d.pages),
         has_text |-> d.text > 0, text_character_count |-> d.text,
         image_count |-> Len(im.images), total_image_bytes |-> im.total_bytes,
         image_percentage |-> pct, images |-> im.images,
         pdf_type |-> determine_pdf_type(pct, d.text, Len(d.pages)),
         error |-> "None"]

\* PDFAnalyzer.analyze when the open or the analysis raises.
AnalysisError(file_size, err) ==
    [file_size |-> file_size, page_count |-> 0, has_text |-> FALSE,
     text_character_count |-> 0, image_count |-> 0, total_image_bytes |-> 0,
     image_percentage |-> <<0, 1>>, images |-> <<>>, pdf_type |-> "mixed",
     error |-> err]

\* The images of a list whose compression is one of kinds.
CountOf(images, kinds) ==
    Cardinality({i \in 1..Len(images) : images[i].compression \in kinds})

\* Faulty variant: a share of exactly 80% jpeg counts as mostly jpeg.
image_reduction_inclusive(images) ==
    IF Len(images) > 0
       /\ CountOf(images, {"jpeg", "jpg"}) * 10 >= 8 * Len(images)
    THEN <<5, 8>>
    ELSE IF Len(images) > 0 /\ CountOf(images, {"png"}) * 2 > Len(images)
    THEN <<2, 5>>
    ELSE <<3, 7>>

\* _estimate_compression, lines 294-310: the pair avg_image_reduction_min,
\* avg_image_reduction_max in tenths.
image_reduction(images) ==
    IF Len(images) > 0
       /\ CountOf(images, {"jpeg", "jpg"}) * 10 > 8 * Len(images)
    THEN <<5, 8>>
    ELSE IF Len(images) > 0 /\ CountOf(images, {"png"}) * 2 > Len(images)
    THEN <<2, 5>>
    ELSE <<3, 7>>

\* int(x) of a float x whose exact value is n / d (d > 0).  The factors 0.3,
\* 0.72, 0.9025, ... have no exact binary form, so when n / d is an integer
\* the float lies at it or just beside it and int() gives that integer or
\* the one next to it towards zero; otherwise it truncates towards zero.
IntOfFloat(n, d) ==
    IF n >= 0
    THEN IF n % d = 0 /\ n > 0 THEN {n \div d, (n \div d) - 1}
         ELSE {n \div d}
    ELSE IF (-n) % d = 0 THEN {-((-n) \div d), -((-n) \div d) + 1}
         ELSE {-((-n) \div d)}

\* PDFAnalyzer._estimate_compression, lines 260-338: the pairs <<min_size,
\* max_size>> it may return.  image_percentage is the quotient <<n, d>>, so
\* image_fraction is n / (100 d); the non-image factors are 0.8 and 0.95,
\* with embedded fonts 0.8 * 0.9 and 0.95 * 0.95.
estimate_compression(file_size, image_percentage, images, has_text, has_embedded_fonts) ==
    LET red   == image_reduction(images)
        n     == image_percentage[1]
        d     == image_percentage[2]
        nmin  == IF has_embedded_fonts THEN 72 ELSE 80
        nmax  == IF has_embedded_fonts THEN 9025 ELSE 9500
        mins  == IntOfFloat(file_size * (n * red[1] * 10 + (100 * d - n) * nmin),
                            10000 * d)
        maxs  == IntOfFloat(file_size * (n * red[2] * 1000 + (100 * d - n) * nmax),
                            1000000 * d)
        floor == file_size \div 10
    IN  {<<Max(mn, floor), Max(mx, Max(mn, floor))>> : mn \in mins, mx \in maxs}

\* PDFAnalyzer.analyze, lines 104-152, on an opened document a of which the
\* provider reports page_count pages, text_character_count characters, the
\* extracted images and their total_image_bytes, and the font flag: the
\* profiles it may return.  The field reduction is not a field of the code's
\* record: it keeps the pair image_reduction chose.
Profiles(a) ==
    LET pct == ImagePercentage(a.total_image_bytes, a.file_size)
    IN  {[file_size |-> a.file_size, page_count |-> a.page_count,
          has_text |-> a.text_character_count > 0,
          text_character_count |-> a.text_character_count,
          image_count |-> Len(a.images),
          total_image_bytes |-> a.total_image_bytes,
          image_percentage |-> pct, images |-> a.images,
          pdf_type |-> determine_pdf_type(pct, a.text_character_count,
                                          a.page_count),
          estimated_min_size |-> e[1], estimated_max_size |-> e[2],
          has_embedded_fonts |-> a.has_embedded_fonts,
          reduction |-> image_reduction(a.images),
          error |-> "None"] :
         e \in estimate_compression(a.file_size, pct, a.images,
                                    a.text_character_count > 0,
                                    a.has_embedded_fonts)}

\* ----------------------------------------------------- faulty variants
\* Each is a decision of the search below with one plausible slip; the
\* properties at the end of the module tell the code's decision from it.
\* The short circuit with its comparison turned round.
AlreadyUnderTargetFlipped(original, target) == original >= target

\* The short circuit taken only when the input is strictly smaller.
AlreadyUnderTargetStrict(original, target) == original < target

\* The budget test off by one: the last attempt of the budget is lost.
BudgetExhaustedOffByOne(it, config) == it >= config.max_iterations

\* A size equal to the target does not count as meeting it.
MeetsTargetStrict(compressed, target) == compressed < target

\* A later attempt of equal size replaces the best retained.
ImprovesOrTies(compressed, best) == compressed <= best

\* An encoding of equal length replaces the stream.
ShouldReplaceOrEqual(new_len, old_len) == new_len <= old_len

\* The classifier's error is not looked at.
AnalysisFailedNever(a) == FALSE

\* Every content class is sent to the grid search.
DispatchAllToGrid(pdf_type) == "grid"

\* The DPI floor is never applied.
BelowMinDpiNever(d, config) == FALSE

\* ------------------------------------------------- decisions of the search
\* compressor.py line 132: the input already fits the target.
AlreadyUnderTarget(original, target) == original <= target

\* line 155: the classifier returned a profile that carries an error.
AnalysisFailed(a) == a.error # "None"

\* lines 173-179 and 318-325: the strategy of a content class, as the position
\* the call continues at; _compress_mixed calls _compress_image_heavy.
Dispatch(pdf_type) ==
    IF pdf_type = "image-heavy" THEN "grid"
    ELSE IF pdf_type = "text-heavy" THEN "text"
    ELSE "grid"

\* line 193: the quality ladder fell below the tolerance's floor.
BelowMinQuality(q, config) == q < config.min_quality

\* line 197: the DPI ladder fell below the tolerance's floor.
BelowMinDpi(d, config) == d < config.min_dpi

\* lines 201 and 224: the shared attempt counter passed the budget.
BudgetExhausted(it, config) == it > config.max_iterations

\* line 213: the attempt's saved size meets the target.
MeetsTarget(compressed, target) == compressed <= target

\* line 220: the attempt's saved size beats the best retained so far.
Improves(compressed, best) == compressed < best

\* line 410: the new encoding replaces the extracted stream.
ShouldReplace(new_len, old_len) == new_len < old_len

\* ------------------------------------------------------------- state
VARIABLES
    pc,               \* position of the compress() call
    tolerance,        \* self.tolerance
    target_size,      \* self.target_size
    original_size,    \* size of the input file
    doc,              \* the input document
    analysis,         \* <<>> or <<AnalysisResult>>
    qi, di,           \* 1-based positions in QUALITY_LEVELS, DPI_LEVELS
    iteration,        \* the shared attempt counter
    best_result,      \* <<>> (None) or <<CompressionResult>>
    best_size,
    streams,          \* image streams of the handle the attempt holds
    page_num, img_idx,\* 1-based position of the attempt's image loops
    images_processed,
    attempt_result,   \* <<>> or <<result of _compress_with_settings>>
    result,           \* <<>> or <<the result compress() returned>>
    out_file,         \* <<>> or <<[size, from]>>: the file at output_path
    route,            \* which return statement of compress() was taken
    handle_open,      \* the running step holds an open document handle
    leaked,           \* handles opened and never closed (saturating)
    tried,            \* the <<quality, dpi>> of every attempt executed
    min_saved,        \* <<>> or <<[size, attempt]>>: earliest smallest save
    last_img,         \* <<>> or <<what the last image step did>>
    n_saves,          \* provider saves that wrote output (saturating)
    n_encodes,        \* lossy encodings performed (saturating)
    n_copies,         \* plain byte copies performed (saturating)
    analysed,         \* the classifier ran
    args,             \* <<>> or <<arguments of the function called on its own>>
    ret,              \* <<>> or <<what that call returned>>
    jobs,             \* web: the jobs dict, job ids 1..Len(jobs)
    worker,           \* web: per job, the position of its background thread
    request           \* web: the HTTP request in flight or last answered

vars == <<pc, tolerance, target_size, original_size, doc, analysis, qi, di,
          iteration, best_result, best_size, streams, page_num, img_idx,
          images_processed, attempt_result, result, out_file, route,
          handle_open, leaked, tried, min_saved, last_img, n_saves, n_encodes, n_copies,
          analysed, args, ret, jobs, worker, request>>

\* The state of the web application.
web == <<jobs, worker, request>>

\* What a compress() call never writes: its inputs, the two variables of the
\* functions called on their own, and the web application's job tracker.

inputs == <<tolerance, target_size, original_size, doc, args, ret, web>>

search == <<qi, di, iteration, best_result, best_size>>

attempt == <<streams, page_num, img_idx, images_processed>>

ghosts == <<tried, min_saved, n_saves, n_encodes, n_copies, analysed>>

CopyOf(size) == [size |-> size, from |-> "copy"]

SavedAs(size) == [size |-> size, from |-> "save"]

NoStreams == [x \in {} |-> 0]

\* Nothing of a compress() call has happened yet.
\* No request is in flight or answered.
NoRequest ==
    [phase |-> "idle", kind |-> "none", job_id |-> 0, file_type |-> "none",
     code |-> 0, body |-> <<>>]

\* app.py line 55: the web application has started no job.
NoJobs == jobs = <<>> /\ worker = <<>> /\ request = NoRequest

NotStarted ==
    /\ analysis = <<>>
    /\ qi = 0 /\ di = 0 /\ iteration = 0
    /\ best_result = <<>> /\ best_size = 0
    /\ streams = NoStreams /\ page_num = 0 /\ img_idx = 0
    /\ images_processed = 0
    /\ attempt_result = <<>> /\ result = <<>> /\ out_file = <<>>
    /\ route = "none"
    /\ handle_open = FALSE /\ leaked = 0
    /\ tried = <<>> /\ min_saved = <<>> /\ last_img = <<>>
    /\ n_saves = 0 /\ n_encodes = 0 /\ n_copies = 0 /\ analysed = FALSE

Init ==
    /\ pc = "start"
    /\ tolerance \in ToleranceNames
    /\ original_size \in OriginalSizes
    /\ target_size \in TargetSizes
    /\ doc \in Docs
    /\ args = <<>> /\ ret = <<>>
    /\ NotStarted
    /\ NoJobs

\* compress(), lines 128-149: the byte-copy short circuit.
CompressStart ==
    /\ pc = "start"
    /\ IF AlreadyUnderTarget(original_size, target_size)
       THEN /\ out_file' = <<CopyOf(original_size)>>
            /\ n_copies' = Inc(n_copies)
            /\ result' = <<CompressionResult(TRUE, original_size, original_size,
                              ZeroRatio, "Excellent", 0, 0, target_size, TRUE,
                              "None", 0)>>
            /\ pc' = "done" /\ route' = "copy"
       ELSE /\ pc' = "analyze"
            /\ UNCHANGED <<out_file, n_copies, result, route>>
    /\ UNCHANGED <<inputs, analysis, search, attempt, attempt_result,
                   handle_open, leaked, tried, min_saved, last_img, n_saves,
                   n_encodes, analysed>>

\* compress(), lines 151-179: run the classifier, return on its error, else
\* dispatch on pdf_type (mixed runs _compress_image_heavy unchanged).
Analyze ==
    /\ pc = "analyze"
    /\ analysed' = TRUE
    /\ \E a \in {AnalysisError(original_size, "Failed to open PDF"),
                 AnalysisError(original_size, "Analysis failed")}
              \cup {AnalysisOk(doc, original_size)} :
          /\ analysis' = <<a>>
          /\ IF AnalysisFailed(a)
             THEN /\ result' = <<FailedResult(original_size, target_size,
                                              a.error, 0)>>
                  /\ pc' = "done" /\ route' = "analysis_error"
             ELSE /\ result' = result /\ route' = route
                  /\ pc' = Dispatch(a.pdf_type)
    /\ UNCHANGED <<inputs, search, attempt, attempt_result, out_file,
                   handle_open, leaked, tried, min_saved, last_img, n_saves,
                   n_encodes, n_copies>>

config == tolerance_config[tolerance]

quality == QUALITY_LEVELS[qi]

dpi == DPI_LEVELS[di]

\* _compress_image_heavy, lines 187-191: the lookup of the tolerance raises
\* KeyError for a name tolerance_config does not hold.
GridEnter ==
    /\ pc = "grid"
    /\ IF tolerance \in DOMAIN tolerance_config
       THEN /\ best_result' = <<>>
            /\ best_size' = analysis[1].file_size
            /\ iteration' = 0
            /\ qi' = 1
            /\ pc' = "outer"
       ELSE /\ pc' = "raised"
            /\ UNCHANGED <<best_result, best_size, iteration, qi>>
    /\ UNCHANGED route
    /\ UNCHANGED <<inputs, analysis, di, attempt, attempt_result, result,
                   out_file, handle_open, leaked, ghosts, last_img>>

\* lines 192-194: head of the loop over QUALITY_LEVELS.
OuterLoop ==
    /\ pc = "outer"
    /\ IF qi > Len(QUALITY_LEVELS) THEN pc' = "finish" /\ di' = di
       ELSE IF BelowMinQuality(quality, config) THEN pc' = "finish" /\ di' = di
       ELSE pc' = "inner" /\ di' = 1
    /\ UNCHANGED route
    /\ UNCHANGED <<inputs, analysis, qi, iteration, best_result, best_size,
                   attempt, attempt_result, result, out_file, handle_open,
                   leaked, ghosts, last_img>>

\* lines 196-210: head of the loop over DPI_LEVELS, up to the call of
\* _compress_with_settings.
InnerLoop ==
    /\ pc = "inner"
    /\ IF di > Len(DPI_LEVELS)
       THEN pc' = "after_inner" /\ UNCHANGED <<iteration, tried>>
       ELSE IF BelowMinDpi(dpi, config)
       THEN pc' = "after_inner" /\ UNCHANGED <<iteration, tried>>
       ELSE /\ iteration' = iteration + 1
            /\ IF BudgetExhausted(iteration + 1, config)
               THEN pc' = "after_inner" /\ tried' = tried
               ELSE pc' = "open" /\ tried' = Append(tried, <<quality, dpi>>)
    /\ UNCHANGED route
    /\ UNCHANGED <<inputs, analysis, qi, di, best_result, best_size, attempt,
                   attempt_result, result, out_file, handle_open, leaked,
                   min_saved, last_img, n_saves, n_encodes, n_copies, analysed>>

\* lines 224-225: after the inner loop, leave the outer loop when the budget
\* is spent, else take the next quality.
AfterInner ==
    /\ pc = "after_inner"
    /\ IF BudgetExhausted(iteration, config)
       THEN pc' = "finish" /\ qi' = qi
       ELSE pc' = "outer" /\ qi' = qi + 1
    /\ UNCHANGED route
    /\ UNCHANGED <<inputs, analysis, di, iteration, best_result, best_size,
                   attempt, attempt_result, result, out_file, handle_open,
                   leaked, ghosts, last_img>>

\* The except branch of _compress_with_settings, lines 452-466.  A handle
\* that was open is not closed: doc.close() is reached only after the save.
AttemptFails(err) ==
    /\ attempt_result' = <<FailedResult(analysis[1].file_size, target_size,
                                        err, Len(tried))>>
    /\ leaked' = IF handle_open THEN Inc(leaked) ELSE leaked
    /\ handle_open' = FALSE
    /\ streams' = NoStreams /\ page_num' = 0 /\ img_idx' = 0
    /\ images_processed' = 0
    /\ last_img' = <<>>
    /\ pc' = "judge"

\* Faulty variant: once an output exists the attempt opens it, not the input.
OpenDocStale ==
    /\ pc = "open"
    /\ \/ /\ handle_open' = TRUE
          /\ streams' = [x \in Xrefs(doc) |->
                            IF out_file # <<>>
                            THEN [OrigStream(x) EXCEPT !.enc = "jpeg"]
                            ELSE OrigStream(x)]
          /\ images_processed' = 0
          /\ page_num' = 1 /\ img_idx' = 0
          /\ pc' = "page"
          /\ UNCHANGED <<attempt_result, leaked>>
          /\ last_img' = <<>>
       \/ AttemptFails("open failed")
    /\ UNCHANGED route
    /\ UNCHANGED <<inputs, analysis, search, result, out_file, ghosts>>

\* _compress_with_settings, lines 346-348: open the input file again.
OpenDoc ==
    /\ pc = "open"
    /\ \/ /\ handle_open' = TRUE
          /\ streams' = [x \in Xrefs(doc) |-> OrigStream(x)]
          /\ images_processed' = 0
          /\ page_num' = 1 /\ img_idx' = 0
          /\ pc' = "page"
          /\ UNCHANGED <<attempt_result, leaked>>
          /\ last_img' = <<>>
       \/ AttemptFails("open failed")
    /\ UNCHANGED route
    /\ UNCHANGED <<inputs, analysis, search, result, out_file, ghosts>>

\* lines 351-352: the loop over the pages; page.get_images is outside the
\* per-image try, so its failure fails the attempt.
PageStep ==
    /\ pc = "page"
    /\ IF page_num > Len(doc.pages)
       THEN /\ pc' = "save"
            /\ UNCHANGED <<attempt, attempt_result, handle_open, leaked,
                           last_img>>
       ELSE \/ /\ img_idx' = 1
               /\ pc' = "image"
               /\ UNCHANGED <<streams, page_num, images_processed,
                              attempt_result, handle_open, leaked, last_img>>
            \/ AttemptFails("get_images failed")
    /\ UNCHANGED route
    /\ UNCHANGED <<inputs, analysis, search, result, out_file, ghosts>>

\* line 385: the resolution every source image is assumed to have.
current_dpi == 150

\* line 386: scale = min(1.0, target_dpi / current_dpi) as a quotient.
scale(target_dpi) == <<Min(current_dpi, target_dpi), current_dpi>>

\* lines 389-392: int() of the scaled dimensions; the products are not
\* negative, so truncation is the floor.
new_size(width, height, target_dpi) ==
    LET s == scale(target_dpi)
    IN  <<(width * s[1]) \div s[2], (height * s[1]) \div s[2]>>

\* Faulty variant: a dimension of exactly 10 pixels is still accepted.
LargeEnoughInclusive(size) == size[1] >= 10 /\ size[2] >= 10

\* line 393: the resize is carried out only above 10 pixels each way.
LargeEnough(size) == size[1] > 10 /\ size[2] > 10

\* lines 383-397: the dimensions of the image handed to the JPEG encoder.
resized_size(width, height, target_dpi) ==
    LET s == scale(target_dpi)
    IN  IF s[1] < s[2] /\ LargeEnough(new_size(width, height, target_dpi))
        THEN new_size(width, height, target_dpi)
        ELSE <<width, height>>

\* What the provider and the codec may do with one image reference whose
\* stream is s: the extraction raises or returns nothing (a stream of the
\* input the provider cannot extract), a codec step (open, convert, resize,
\* save) raises, or an encoding of new_len bytes comes out and the
\* replacement, when tried, succeeds or raises.
ImgOutcomes(d, s) ==
    IF s.enc = "orig" /\ s.xref \in d.unextractable
    THEN [kind : {"extract_raise", "extract_empty"},
          new_len : {0}, replace_ok : {TRUE}]
    ELSE [kind : {"codec_raise"}, new_len : {0}, replace_ok : {TRUE}]
         \cup {oc \in [kind : {"encoded"}, new_len : 1..MaxImgLen,
                        replace_ok : BOOLEAN] :
                    oc.replace_ok \/ ShouldReplace(oc.new_len, s.len)}

\* Faulty variant: the counter is advanced before the replacement is known to have
\* succeeded.
ProcessImageCountFirst(strs, count, x, oc, at) ==
    IF oc.kind = "encoded" /\ ShouldReplace(oc.new_len, strs[x].len)
    THEN [streams |-> IF oc.replace_ok
                      THEN [strs EXCEPT ![x] = [len |-> oc.new_len,
                                enc |-> "jpeg", xref |-> x, at |-> at]]
                      ELSE strs,
          images_processed |-> count + 1, replaced |-> oc.replace_ok]
    ELSE [streams |-> strs, images_processed |-> count, replaced |-> FALSE]

\* Body of the loop over a page's images, lines 354-417, for the reference at
\* position at to xref x: the streams and the counter after it.
ProcessImage(strs, count, x, oc, at) ==
    IF oc.kind = "encoded" /\ ShouldReplace(oc.new_len, strs[x].len)
                           /\ oc.replace_ok
    THEN [streams |-> [strs EXCEPT ![x] = [len |-> oc.new_len, enc |-> "jpeg",
                                           xref |-> x, at |-> at]],
          images_processed |-> count + 1, replaced |-> TRUE]
    ELSE [streams |-> strs, images_processed |-> count, replaced |-> FALSE]

\* lines 354-417: one pass of the loop over the images of the page.
ImageStep ==
    /\ pc = "image"
    /\ IF img_idx > Len(doc.pages[page_num])
       THEN /\ page_num' = page_num + 1
            /\ img_idx' = 0
            /\ pc' = "page"
            /\ last_img' = <<>>
            /\ UNCHANGED <<streams, images_processed, n_encodes>>
       ELSE LET x == doc.pages[page_num][img_idx] IN
            \E oc \in ImgOutcomes(doc, streams[x]) :
              LET r == ProcessImage(streams, images_processed, x, oc,
                                    <<page_num, img_idx>>)
              IN  /\ streams' = r.streams
                  /\ images_processed' = r.images_processed
                  /\ last_img' = <<[xref |-> x, kind |-> oc.kind,
                                    extracted_len |-> streams[x].len,
                                    new_len |-> oc.new_len,
                                    replace_ok |-> oc.replace_ok,
                                    replaced |-> r.replaced]>>
                  /\ n_encodes' = IF oc.kind = "encoded" THEN Inc(n_encodes)
                                  ELSE n_encodes
                  /\ img_idx' = img_idx + 1
                  /\ pc' = "image"
                  /\ page_num' = page_num
    /\ UNCHANGED route
    /\ UNCHANGED <<inputs, analysis, search, attempt_result, result, out_file,
                   handle_open, leaked, tried, min_saved, n_saves, n_copies,
                   analysed>>

\* The success result of _compress_with_settings, lines 432-450.
AttemptSuccess(a, compressed, q, imgs, target, k) ==
    CompressionResult(TRUE, a.file_size, compressed,
        calculate_compression_ratio(a.file_size, compressed),
        estimate_quality_score(a.file_size, compressed, a.image_percentage, q),
        a.page_count, imgs, target, compressed <= target, "None", k)

\* lines 419-450: save, measure, close and build the result; a save that
\* raises goes to the except branch.  A failed save is taken to leave the
\* file at output_path as it was.
Save ==
    /\ pc = "save"
    /\ \/ \E size \in 1..(MaxSize + 1) :
            /\ out_file' = <<SavedAs(size)>>
            /\ n_saves' = Inc(n_saves)
            /\ min_saved' = IF min_saved = <<>> \/ size < min_saved[1].size
                            THEN <<[size |-> size, attempt |-> Len(tried)]>>
                            ELSE min_saved
            /\ handle_open' = FALSE
            /\ attempt_result' = <<AttemptSuccess(analysis[1], size, quality,
                                     images_processed, target_size, Len(tried))>>
            /\ pc' = "judge"
            /\ streams' = NoStreams /\ page_num' = 0 /\ img_idx' = 0
            /\ images_processed' = 0
            /\ UNCHANGED <<leaked, last_img>>
       \/ /\ AttemptFails("save failed")
          /\ UNCHANGED <<out_file, n_saves, min_saved>>
    /\ UNCHANGED route
    /\ UNCHANGED <<inputs, analysis, search, result, tried, n_encodes,
                   n_copies, analysed>>

\* Faulty variant: a failed attempt ends the search with its failed result.
JudgeAbortOnFailure ==
    /\ pc = "judge"
    /\ LET r == attempt_result[1]
       IN  IF ~r.success \/ MeetsTarget(r.compressed_size, target_size)
           THEN /\ result' = <<[r EXCEPT !.target_achieved = r.success,
                                         !.iterations = iteration]>>
                /\ pc' = "done" /\ route' = "early"
                /\ UNCHANGED <<best_result, best_size, di>>
           ELSE /\ IF Improves(r.compressed_size, best_size)
                   THEN best_result' = <<r>> /\ best_size' = r.compressed_size
                   ELSE UNCHANGED <<best_result, best_size>>
                /\ di' = di + 1
                /\ pc' = "inner"
                /\ UNCHANGED <<result, route>>
    /\ attempt_result' = <<>>
    /\ UNCHANGED <<inputs, analysis, qi, iteration, attempt, out_file,
                   handle_open, leaked, ghosts, last_img>>

\* Faulty variant: a failed attempt is tried again with the same settings.
JudgeRetryOnFailure ==
    /\ pc = "judge"
    /\ LET r == attempt_result[1]
       IN  IF r.success /\ MeetsTarget(r.compressed_size, target_size)
           THEN /\ result' = <<[r EXCEPT !.target_achieved = TRUE,
                                         !.iterations = iteration]>>
                /\ pc' = "done" /\ route' = "early"
                /\ UNCHANGED <<best_result, best_size, di>>
           ELSE /\ IF r.success /\ Improves(r.compressed_size, best_size)
                   THEN best_result' = <<r>> /\ best_size' = r.compressed_size
                   ELSE UNCHANGED <<best_result, best_size>>
                /\ di' = IF r.success THEN di + 1 ELSE di
                /\ pc' = "inner"
                /\ UNCHANGED <<result, route>>
    /\ attempt_result' = <<>>
    /\ UNCHANGED <<inputs, analysis, qi, iteration, attempt, out_file,
                   handle_open, leaked, ghosts, last_img>>

\* _compress_image_heavy, lines 212-222: judge the attempt's result, return it
\* when it meets the target, retain it when it beats the best so far.
Judge ==
    /\ pc = "judge"
    /\ LET r == attempt_result[1]
       IN  IF r.success /\ MeetsTarget(r.compressed_size, target_size)
           THEN /\ result' = <<[r EXCEPT !.target_achieved = TRUE,
                                         !.iterations = iteration]>>
                /\ pc' = "done" /\ route' = "early"
                /\ UNCHANGED <<best_result, best_size, di>>
           ELSE /\ IF r.success /\ Improves(r.compressed_size, best_size)
                   THEN best_result' = <<r>> /\ best_size' = r.compressed_size
                   ELSE UNCHANGED <<best_result, best_size>>
                /\ di' = di + 1
                /\ pc' = "inner"
                /\ UNCHANGED <<result, route>>
    /\ attempt_result' = <<>>
    /\ UNCHANGED <<inputs, analysis, qi, iteration, attempt, out_file,
                   handle_open, leaked, ghosts, last_img>>

\* lines 227-247: after the loops, return the best retained result, or the
\* failed result when none was retained.
Finish ==
    /\ pc = "finish"
    /\ result' = IF best_result # <<>>
                 THEN <<[best_result[1] EXCEPT !.target_achieved =
                             best_result[1].compressed_size <= target_size]>>
                 ELSE <<FailedResult(analysis[1].file_size, target_size,
                                     "Could not achieve target size", 0)>>
    /\ pc' = "done" /\ route' = "finish"
    /\ UNCHANGED <<inputs, analysis, search, attempt, attempt_result,
                   out_file, handle_open, leaked, ghosts, last_img>>

\* _compress_text_heavy, lines 255-316: one save, no image work.  The open may
\* raise, or the save may raise with the handle open.
CompressTextHeavy ==
    /\ pc = "text"
    /\ \/ \E size \in 1..(MaxSize + 1) :
            /\ out_file' = <<SavedAs(size)>>
            /\ n_saves' = Inc(n_saves)
            /\ result' = <<CompressionResult(TRUE, analysis[1].file_size, size,
                   calculate_compression_ratio(analysis[1].file_size, size),
                   estimate_quality_score(analysis[1].file_size, size,
                                          analysis[1].image_percentage, 90),
                   analysis[1].page_count, 0, target_size,
                   size <= target_size, "None", 0)>>
            /\ leaked' = leaked
       \/ \E open_ok \in BOOLEAN :
            /\ result' = <<FailedResult(analysis[1].file_size, target_size,
                              IF open_ok THEN "save failed" ELSE "open failed",
                              0)>>
            /\ leaked' = IF open_ok THEN Inc(leaked) ELSE leaked
            /\ UNCHANGED <<out_file, n_saves>>
    /\ pc' = "done" /\ route' = "text"
    /\ UNCHANGED <<inputs, analysis, search, attempt, attempt_result,
                   handle_open, tried, min_saved, last_img, n_encodes,
                   n_copies, analysed>>

Next ==
    \/ CompressStart
    \/ Analyze
    \/ GridEnter
    \/ OuterLoop
    \/ InnerLoop
    \/ AfterInner
    \/ OpenDoc
    \/ PageStep
    \/ ImageStep
    \/ Save
    \/ Judge
    \/ Finish
    \/ CompressTextHeavy

Spec == Init /\ [][Next]_vars

\* ------------------------------------------- the analyzer on its own
\* File sizes of the documents profiled: one a multiple of ten, one not.
ProfileFileSizes == {10, 15}

\* Text lengths at and just above 500 characters per page.
TextCounts == {0} \cup {500 * p + k : p \in 1..MaxPages, k \in {0, 1}}

\* A list of j jpeg-family images, p png images and o others.
ImagesOf(j, p, o) ==
    [i \in 1..(j + p + o) |->
        [compression |-> IF i <= j THEN (IF i % 2 = 1 THEN "jpeg" ELSE "jpg")
                         ELSE IF i <= j + p THEN "png"
                         ELSE "unknown"]]

ImageLists ==
    {ImagesOf(c[1], c[2], c[3]) :
        c \in {t \in (0..MaxImages) \X (0..MaxImages) \X (0..MaxImages) :
                  t[1] + t[2] + t[3] <= MaxImages}}

\* What the provider may report of a document it opened: text and images sit
\* on pages, every extracted image has at least one byte, and the bytes
\* extracted from the images are not bounded by the size of the file.
ProfileArgs ==
    {a \in [file_size : ProfileFileSizes, page_count : 0..MaxPages,
            text_character_count : TextCounts, images : ImageLists,
            total_image_bytes : 0..MaxImageBytes,
            has_embedded_fonts : BOOLEAN] :
        /\ a.text_character_count \in
               {0, 500 * a.page_count, 500 * a.page_count + 1}
        /\ a.page_count = 0 => a.text_character_count = 0 /\ a.images = <<>>
        /\ a.images = <<>> <=> a.total_image_bytes = 0
        /\ a.total_image_bytes >= Len(a.images)}

\* The variables of compress() stand still while a function runs on its own.
Idle ==
    /\ tolerance = "balanced" /\ target_size = 1 /\ original_size = MaxSize
    /\ doc = DocPlain
    /\ NotStarted
    /\ NoJobs

InitProfile ==
    /\ pc = "profile"
    /\ args \in {<<a>> : a \in ProfileArgs}
    /\ ret = <<>>
    /\ Idle

\* PDFAnalyzer.analyze, lines 104-152, after a successful open.
AnalyzeProfile ==
    /\ pc = "profile"
    /\ \E p \in Profiles(args[1]) : ret' = <<p>>
    /\ pc' = "profiled"
    /\ UNCHANGED <<tolerance, target_size, original_size, doc, args, web, analysis,
                   search, attempt, attempt_result, result, out_file, route,
                   handle_open, leaked, ghosts, last_img>>

NextProfile == AnalyzeProfile

SpecProfile == InitProfile /\ [][NextProfile]_vars

\* --------------------------------------------- the scorer on its own
ScoredOriginals == {10}

ScoreArgs ==
    [original_size : ScoredOriginals, compressed_size : 0..MaxScoredSize,
     image_percentage : {ImagePercentage(b, 10) : b \in {0, 7, 8, 12}},
     compression_level : {QUALITY_LEVELS[i] : i \in 1..Len(QUALITY_LEVELS)}
                         \cup {90, 50, 49}]

InitScore ==
    /\ pc = "score"
    /\ args \in {<<a>> : a \in ScoreArgs}
    /\ ret = <<>>
    /\ Idle

\* One call of utils.estimate_quality_score.
ScoreCall ==
    /\ pc = "score"
    /\ ret' = <<estimate_quality_score(args[1].original_size,
                    args[1].compressed_size, args[1].image_percentage,
                    args[1].compression_level)>>
    /\ pc' = "scored"
    /\ UNCHANGED <<tolerance, target_size, original_size, doc, args, web, analysis,
                   search, attempt, attempt_result, result, out_file, route,
                   handle_open, leaked, ghosts, last_img>>

InitLabel == Init \/ InitScore

NextLabel == Next \/ ScoreCall

\* compress() calls, and calls of the scorer on inputs at its thresholds.
SpecLabel == InitLabel /\ [][NextLabel]_vars

\* ------------------------------------------ the image scan on its own
\* The reference lists of one page: up to MaxRefs xrefs, repeats allowed.
RECURSIVE RefLists(_)
RefLists(n) ==
    IF n = 0 THEN {<<>>}
    ELSE RefLists(n - 1) \cup
         {Append(l, x) : l \in {m \in RefLists(n - 1) : Len(m) = n - 1},
                         x \in 1..MaxXref}

\* Documents of one page and of two pages of which at most one image cannot
\* be extracted.
ScannedDocs ==
    {[pages |-> ps, text |-> 0, unextractable |-> u] :
        ps \in {<<r>> : r \in RefLists(MaxRefs)}
                \cup {<<r, q>> : r, q \in RefLists(MaxRefs)},
        u \in {{}} \cup {{x} : x \in 1..MaxXref}}

InitImages ==
    /\ pc = "scan"
    /\ args \in {<<d>> : d \in ScannedDocs}
    /\ ret = <<>>
    /\ Idle

\* PDFAnalyzer.analyze, lines 104-152, on a document that opens: the image
\* scan and the fields computed from it.
AnalyzeImages ==
    /\ pc = "scan"
    /\ ret' = <<AnalysisOk(args[1], MaxSize)>>
    /\ pc' = "scanned"
    /\ UNCHANGED <<tolerance, target_size, original_size, doc, args, web, analysis,
                   search, attempt, attempt_result, result, out_file, route,
                   handle_open, leaked, ghosts, last_img>>

NextImages == AnalyzeImages

SpecImages == InitImages /\ [][NextImages]_vars

\* ------------------------------------------- the resize on its own
\* Pixel dimensions on both sides of the 10-pixel limit for each DPI below
\* 150 (13/14 at 120, 16/17 at 100, 22/23 at 72), a single pixel and a
\* page-sized image.
ImageDims == {1, 13, 14, 16, 17, 22, 23, 2480}

ResizeArgs ==
    [width : ImageDims, height : ImageDims,
     target_dpi : {DPI_LEVELS[i] : i \in 1..Len(DPI_LEVELS)}]

InitResize ==
    /\ pc = "resize"
    /\ args \in {<<a>> : a \in ResizeArgs}
    /\ ret = <<>>
    /\ Idle

\* The scaling step of one image in one attempt, lines 383-397.
ResizeCall ==
    /\ pc = "resize"
    /\ ret' = <<resized_size(args[1].width, args[1].height,
                             args[1].target_dpi)>>
    /\ pc' = "resized"
    /\ UNCHANGED <<tolerance, target_size, original_size, doc, args, web, analysis,
                   search, attempt, attempt_result, result, out_file, route,
                   handle_open, leaked, ghosts, last_img>>

InitScaled == Init \/ InitResize

NextScaled == Next \/ ResizeCall

\* compress() calls, and the scaling step on images around its limits.
SpecScaled == InitScaled /\ [][NextScaled]_vars

\* ------------------------------------------- the web job tracker
\* src/web/app.py.  A job id is the position of the job in jobs (uuid4 ids
\* are fresh).  Each block under jobs_lock is one step; what a handler does
\* after releasing the lock is a step of its own.  The fields file_id,
\* filename and target_size of a job are written once and are left out.
\* compress() is the environment of the tracker: it reports progress any
\* number of times and then returns a result or raises.
JobIds == 1..MaxJobs

FileTypes == {"compressed_pdf", "extracted_text", "notext_pdf"}

\* The (stage, percentage) pairs compress() reports: its first and its last.
Reports == {<<"Analyzing PDF", 0>>, <<"Finalizing PDF", 100>>}

\* start_compression, lines 173-183.
NewJob ==
    [status |-> "starting", stage |-> "Initializing", progress |-> 0,
     result |-> <<>>, error |-> "None", output_files |-> {}]

Returned(kind, job_id, file_type, code, body) ==
    [phase |-> "returned", kind |-> kind, job_id |-> job_id,
     file_type |-> file_type, code |-> code, body |-> body]

Checked(kind, job_id, file_type) ==
    [phase |-> "checked", kind |-> kind, job_id |-> job_id,
     file_type |-> file_type, code |-> 0, body |-> <<>>]

\* Faulty variant: a failed job passes the test as well.
CompletedOrFailed(job) == job.status \in {"completed", "failed"}

\* lines 284 and 322: job["status"] != "completed" rejects the request.
Completed(job) == job.status = "completed"

\* A handler starts when no other request is between its two steps.
Accepting == request.phase # "checked"

InitWeb ==
    /\ pc = "web"
    /\ tolerance = "balanced" /\ target_size = 1 /\ original_size = MaxSize
    /\ doc = DocPlain
    /\ args = <<>> /\ ret = <<>>
    /\ NotStarted
    /\ NoJobs

\* POST /api/compress, lines 140-192: a request that fails validation is
\* answered without a job; otherwise the job is registered and its thread
\* started.
start_compression ==
    /\ pc = "web" /\ Accepting
    /\ \/ /\ request' = Returned("compress", 0, "none", 400, <<>>)
          /\ UNCHANGED <<jobs, worker>>
       \/ /\ Len(jobs) < MaxJobs
          /\ \E extract_text, remove_text \in BOOLEAN :
                worker' = Append(worker, [pc |-> "compress",
                                          extract_text |-> extract_text,
                                          remove_text |-> remove_text])
          /\ jobs' = Append(jobs, NewJob)
          /\ request' = Returned("compress", Len(jobs) + 1, "none", 200, <<>>)
    /\ UNCHANGED <<pc, tolerance, target_size, original_size, doc, args, ret,
                   analysis, search, attempt, attempt_result, result, out_file,
                   route, handle_open, leaked, ghosts, last_img>>

\* progress_callback, lines 204-209, called by compress() in the job's thread.
progress_callback(j) ==
    /\ pc = "web"
    /\ j \in DOMAIN worker /\ worker[j].pc = "compress"
    /\ \E r \in Reports :
          jobs' = IF j \in DOMAIN jobs
                  THEN [jobs EXCEPT ![j].stage = r[1], ![j].progress = r[2],
                                    ![j].status = "processing"]
                  ELSE jobs
    /\ UNCHANGED <<worker, request>>
    /\ UNCHANGED <<pc, tolerance, target_size, original_size, doc, args, ret,
                   analysis, search, attempt, attempt_result, result, out_file,
                   route, handle_open, leaked, ghosts, last_img>>

\* lines 221-245: the output files of a job whose compress() returned.
OutputFiles(success, w, text_ok, notext_ok) ==
    IF success
    THEN {"compressed_pdf"}
         \cup (IF w.extract_text /\ text_ok THEN {"extracted_text"} ELSE {})
         \cup (IF w.remove_text /\ notext_ok THEN {"notext_pdf"} ELSE {})
    ELSE {}

\* run_compression_job, lines 221-254: compress() returned a result, the text
\* operations asked for ran, and the job is closed under the lock.
run_compression_job(j) ==
    /\ pc = "web"
    /\ j \in DOMAIN worker /\ worker[j].pc = "compress"
    /\ \E success, text_ok, notext_ok \in BOOLEAN :
          jobs' = [jobs EXCEPT
                      ![j].status = IF success THEN "completed" ELSE "failed",
                      ![j].stage = IF success THEN "Complete" ELSE "Failed",
                      ![j].progress = 100,
                      ![j].result = <<[success |-> success]>>,
                      ![j].output_files =
                          OutputFiles(success, worker[j], text_ok, notext_ok),
                      ![j].error = IF success THEN @ ELSE "result.error"]
    /\ worker' = [worker EXCEPT ![j] = [pc |-> "finished",
                                        extract_text |-> FALSE,
                                        remove_text |-> FALSE]]
    /\ UNCHANGED request
    /\ UNCHANGED <<pc, tolerance, target_size, original_size, doc, args, ret,
                   analysis, search, attempt, attempt_result, result, out_file,
                   route, handle_open, leaked, ghosts, last_img>>

\* run_compression_job, lines 256-260: the constructor, compress() or a text
\* operation raised.
run_compression_job_except(j) ==
    /\ pc = "web"
    /\ j \in DOMAIN worker /\ worker[j].pc = "compress"
    /\ jobs' = [jobs EXCEPT ![j].status = "failed", ![j].stage = "Error",
                            ![j].error = "str(e)"]
    /\ worker' = [worker EXCEPT ![j] = [pc |-> "finished",
                                        extract_text |-> FALSE,
                                        remove_text |-> FALSE]]
    /\ UNCHANGED request
    /\ UNCHANGED <<pc, tolerance, target_size, original_size, doc, args, ret,
                   analysis, search, attempt, attempt_result, result, out_file,
                   route, handle_open, leaked, ghosts, last_img>>

\* GET /api/job/<job_id>, lines 263-272: a copy of the job taken under the
\* lock; the answer keeps its status.
get_job_status(j) ==
    /\ pc = "web" /\ Accepting
    /\ request' = IF j \notin DOMAIN jobs
                  THEN Returned("status", j, "none", 404, <<>>)
                  ELSE Returned("status", j, "none", 200,
                                <<jobs[j].status>>)
    /\ UNCHANGED <<jobs, worker>>
    /\ UNCHANGED <<pc, tolerance, target_size, original_size, doc, args, ret,
                   analysis, search, attempt, attempt_result, result, out_file,
                   route, handle_open, leaked, ghosts, last_img>>

\* GET /api/download/<job_id>/<file_type>, lines 275-289: the tests made
\* under the lock.
download_file(j, file_type) ==
    /\ pc = "web" /\ Accepting
    /\ request' = IF j \notin DOMAIN jobs
                  THEN Returned("download", j, file_type, 404, <<>>)
                  ELSE IF ~Completed(jobs[j])
                  THEN Returned("download", j, file_type, 400, <<>>)
                  ELSE IF file_type \notin jobs[j].output_files
                  THEN Returned("download", j, file_type, 404, <<>>)
                  ELSE Checked("download", j, file_type)
    /\ UNCHANGED <<jobs, worker>>
    /\ UNCHANGED <<pc, tolerance, target_size, original_size, doc, args, ret,
                   analysis, search, attempt, attempt_result, result, out_file,
                   route, handle_open, leaked, ghosts, last_img>>

\* download_file, lines 291-309, after the lock: the file is sent when it
\* still exists.
download_file_send ==
    /\ pc = "web"
    /\ request.phase = "checked" /\ request.kind = "download"
    /\ \E exists \in BOOLEAN :
          request' = IF exists
                     THEN Returned("download", request.job_id,
                                   request.file_type, 200,
                                   <<request.file_type>>)
                     ELSE Returned("download", request.job_id,
                                   request.file_type, 404, <<>>)
    /\ UNCHANGED <<jobs, worker>>
    /\ UNCHANGED <<pc, tolerance, target_size, original_size, doc, args, ret,
                   analysis, search, attempt, attempt_result, result, out_file,
                   route, handle_open, leaked, ghosts, last_img>>

\* GET /api/report/<job_id>, lines 313-323: the tests made under the lock.
get_report(j) ==
    /\ pc = "web" /\ Accepting
    /\ request' = IF j \notin DOMAIN jobs
                  THEN Returned("report", j, "none", 404, <<>>)
                  ELSE IF ~Completed(jobs[j])
                  THEN Returned("report", j, "none", 400, <<>>)
                  ELSE Checked("report", j, "none")
    /\ UNCHANGED <<jobs, worker>>
    /\ UNCHANGED <<pc, tolerance, target_size, original_size, doc, args, ret,
                   analysis, search, attempt, attempt_result, result, out_file,
                   route, handle_open, leaked, ghosts, last_img>>

\* get_report, line 325, after the lock: job["result"] is read from the live
\* job.
get_report_return ==
    /\ pc = "web"
    /\ request.phase = "checked" /\ request.kind = "report"
    /\ request' = Returned("report", request.job_id, "none", 200,
                           jobs[request.job_id].result)
    /\ UNCHANGED <<jobs, worker>>
    /\ UNCHANGED <<pc, tolerance, target_size, original_size, doc, args, ret,
                   analysis, search, attempt, attempt_result, result, out_file,
                   route, handle_open, leaked, ghosts, last_img>>

NextWeb ==
    \/ start_compression
    \/ \E j \in JobIds : progress_callback(j)
    \/ \E j \in JobIds : run_compression_job(j)
    \/ \E j \in JobIds : run_compression_job_except(j)
    \/ \E j \in JobIds : get_job_status(j)
    \/ \E j \in JobIds, file_type \in FileTypes \cup {"other"} :
          download_file(j, file_type)
    \/ download_file_send
    \/ \E j \in JobIds : get_report(j)
    \/ get_report_return

SpecWeb == InitWeb /\ [][NextWeb]_vars

\* --------------------------------------------------------- properties
\* The grid search ran: the classifier succeeded and did not say text-heavy.
GridRoute ==
    /\ analysis # <<>>
    /\ analysis[1].error = "None"
    /\ analysis[1].pdf_type # "text-heavy"
    /\ tolerance \in DOMAIN tolerance_config

\* C1: the attempts executed (calls of _compress_with_settings, failed ones
\* included) never exceed the tolerance's max_iterations, and when the loops
\* end without an attempt meeting the target exactly max_iterations attempts
\* ran: 10 under strict, 6 under balanced, 4 under high_clarity.
C1_AttemptBudget ==
    GridRoute =>
        /\ Len(tried) <= config.max_iterations
        /\ (pc = "finish" \/ route = "finish") =>
               /\ Len(tried) = config.max_iterations
               /\ tolerance = "strict" => Len(tried) = 10
               /\ tolerance = "balanced" => Len(tried) = 6
               /\ tolerance = "high_clarity" => Len(tried) = 4

\* A strict run in which some attempts failed and none met the target has
\* left the loops after its tenth attempt.
C1_Witness ==
    /\ pc = "finish" /\ tolerance = "strict" /\ Len(tried) = 10
    /\ leaked > 0 /\ n_saves > 0

\* C2: when the attempt being judged saved a size <= target_size, the search
\* returns that attempt's result at once with target_achieved = TRUE and
\* iterations = the number of attempts executed so far, and after the return
\* nothing more is attempted (no step is taken from "done").
C2_FirstSuccessWins ==
    [][ /\ pc # "done"
        /\ (/\ pc = "judge"
            /\ attempt_result[1].success
            /\ attempt_result[1].compressed_size <= target_size)
           => /\ pc' = "done"
              /\ tried' = tried
              /\ result' = <<[attempt_result[1] EXCEPT
                                 !.target_achieved = TRUE,
                                 !.iterations = Len(tried)]>>
              /\ result'[1].attempt = Len(tried) ]_vars

\* The second attempt met the target after the first attempt failed with its
\* handle open: the run returned with iterations = 2.
C2_Witness ==
    /\ pc = "done" /\ route = "early"
    /\ result[1].target_achieved /\ result[1].iterations = 2
    /\ tried = <<<<95, 300>>, <<95, 200>>>>
    /\ leaked = 1

\* C3 as stated: after the budget is exhausted with no attempt meeting the
\* target, the result is the attempt with the minimum saved size over all
\* attempts that produced output, earliest on ties, target_achieved = FALSE.
C3_Original ==
    (route = "finish" /\ min_saved # <<>>) =>
        /\ result[1].success
        /\ ~result[1].target_achieved
        /\ result[1].compressed_size = min_saved[1].size
        /\ result[1].attempt = min_saved[1].attempt

\* C3 amended: an attempt is retained only when its saved size is strictly
\* smaller than the original file.  When some attempt saved such a size the
\* result is the attempt with the minimum saved size over all attempts,
\* earliest on ties, with target_achieved = FALSE; when none did, the failed
\* result is returned although attempts produced output.
C3_BestEffort ==
    route = "finish" =>
        IF min_saved # <<>> /\ min_saved[1].size < original_size
        THEN /\ result[1].success
             /\ ~result[1].target_achieved
             /\ result[1].compressed_size = min_saved[1].size
             /\ result[1].attempt = min_saved[1].attempt
        ELSE ~result[1].success

\* The best retained attempt is neither the first nor the last attempt of a
\* run whose budget ran out.
C3_Witness ==
    /\ route = "finish" /\ result[1].success
    /\ result[1].attempt > 1 /\ result[1].attempt < Len(tried)
    /\ result[1].compressed_size = min_saved[1].size

\* C4 as stated: when at least one attempt saved an output and the budget ran
\* out without meeting the target, the result has success = TRUE,
\* target_achieved = FALSE and no error.
C4_Original ==
    (route = "finish" /\ n_saves > 0) =>
        /\ result[1].success
        /\ ~result[1].target_achieved
        /\ result[1].error = "None"

\* C4 amended: when at least one attempt saved an output strictly smaller than
\* the original file and the budget ran out without meeting the target, the
\* result has success = TRUE, target_achieved = FALSE and no error; success =
\* FALSE is returned exactly when no attempt saved a smaller output.
C4_SuccessIffSmallerOutput ==
    route = "finish" =>
        /\ (min_saved # <<>> /\ min_saved[1].size < original_size)
               <=> result[1].success
        /\ result[1].success =>
               ~result[1].target_achieved /\ result[1].error = "None"

\* The budget ran out after one attempt saved a smaller output and a later
\* one failed: the result is the successful best effort.
C4_Witness ==
    /\ route = "finish" /\ result[1].success /\ ~result[1].target_achieved
    /\ n_saves > 0 /\ leaked > 0
    /\ result[1].compressed_size < original_size

\* C5: with original_size <= target_size compress() copies the input to the
\* output path and returns success, compressed_size = original_size, ratio 0,
\* target_achieved, having run no analysis, no attempt, no encoding and no
\* provider save; the classifier, the search and the text-heavy pass run only
\* when original_size > target_size.
C5_ShortCircuit ==
    /\ (original_size <= target_size /\ pc # "start") =>
           /\ pc = "done" /\ route = "copy"
           /\ out_file = <<[size |-> original_size, from |-> "copy"]>>
           /\ result[1].success
           /\ result[1].compressed_size = original_size
           /\ result[1].compression_ratio[1] = 0
           /\ result[1].target_achieved
           /\ n_copies = 1
           /\ ~analysed /\ tried = <<>> /\ n_encodes = 0 /\ n_saves = 0
           /\ leaked = 0 /\ ~handle_open
    /\ (\/ analysed \/ tried # <<>> \/ n_saves > 0 \/ n_encodes > 0
        \/ pc \notin {"start", "done"})
           => original_size > target_size /\ n_copies = 0

\* An input exactly as large as the target was copied.
C5_Witness ==
    /\ pc = "done" /\ route = "copy"
    /\ original_size = target_size /\ n_copies = 1

\* C6: every result compress() returns, on every path, has target_achieved
\* exactly when compressed_size <= target_size.
C6_TargetAchievedIff ==
    result # <<>> =>
        /\ result[1].target_size = target_size
        /\ result[1].target_achieved
               <=> result[1].compressed_size <= target_size

\* A best-effort result: the budget ran out, the result is a successful
\* attempt above the target and says target_achieved = FALSE.
C6_Witness ==
    /\ route = "finish" /\ result[1].success
    /\ result[1].compressed_size > target_size
    /\ ~result[1].target_achieved

\* C7: judging a failed attempt neither returns nor changes the best result
\* retained; the attempt has consumed one unit of the budget (it is counted in
\* iteration and in the attempts executed) and the search goes on to the next
\* DPI of the ladder.
C7_FailedAttemptDiscarded ==
    [][ (pc = "judge" /\ ~attempt_result[1].success) =>
           /\ Len(tried) = iteration
           /\ attempt_result[1].attempt = iteration
           /\ ~attempt_result[1].target_achieved
           /\ best_result' = best_result
           /\ best_size' = best_size
           /\ result' = <<>>
           /\ iteration' = iteration
           /\ pc' = "inner" /\ di' = di + 1 /\ qi' = qi ]_vars

\* After a first attempt that failed with its handle open, the second attempt
\* of the run is starting with the next DPI of the ladder.
C7_Witness ==
    /\ pc = "open" /\ tried = <<<<95, 300>>, <<95, 200>>>>
    /\ leaked = 1 /\ n_saves = 0 /\ best_result = <<>>

\* C8: when the loops end and no attempt ever saved an output, the run returns
\* success = FALSE with an error message, compressed_size = original_size,
\* compression_ratio = 0 and target_achieved = FALSE.
C8_AllAttemptsFailed ==
    (route = "finish" /\ n_saves = 0) =>
        /\ ~result[1].success
        /\ result[1].error \notin {"None", ""}
        /\ result[1].compressed_size = original_size
        /\ result[1].original_size = original_size
        /\ result[1].compression_ratio[1] = 0
        /\ ~result[1].target_achieved

\* All ten attempts of a strict run failed.
C8_Witness ==
    /\ route = "finish" /\ n_saves = 0 /\ Len(tried) = 10
    /\ ~result[1].success

\* The step taken processes one image reference.
ImageProcessed ==
    /\ pc = "image" /\ pc' = "image"
    /\ img_idx' = img_idx + 1

\* The image step recorded in last_img' ended in the except branch.
ImageFailed ==
    \/ last_img'[1].kind # "encoded"
    \/ /\ last_img'[1].new_len < last_img'[1].extracted_len
       /\ ~last_img'[1].replace_ok

\* C9: a failure while extracting, decoding, encoding or replacing one image
\* leaves every stream as it was and the counter unchanged, and the attempt
\* goes on with the next image of the page, its handle open and no result
\* built.
C9_ImageFailureLocal ==
    [][ (ImageProcessed /\ ImageFailed) =>
           /\ streams' = streams
           /\ images_processed' = images_processed
           /\ page_num' = page_num
           /\ handle_open' /\ attempt_result' = <<>>
           /\ leaked' = leaked ]_vars

\* An attempt on the document whose first image cannot be extracted replaced
\* the image after it twice and saved.
C9_Witness ==
    /\ doc = DocShared /\ pc = "judge"
    /\ attempt_result[1].success /\ attempt_result[1].images_processed = 2

\* C10: an image step changes a stream only when the new encoding is strictly
\* shorter than the stream extracted; when the encoding came out and the
\* replacement did not raise, the stream is replaced exactly in that case, and
\* no other stream changes.  images_processed starts at 0, grows by one with
\* every replacement and by nothing else, and is what the attempt's result
\* reports.
C10_ReplaceOnlyIfSmaller ==
    [][ /\ ImageProcessed =>
             LET li == last_img'[1]
                 shorter == li.new_len < li.extracted_len
             IN  /\ li.extracted_len = streams[li.xref].len
                 /\ streams' # streams => li.kind = "encoded" /\ shorter
                 /\ (li.kind = "encoded" /\ li.replace_ok) =>
                        (streams' # streams <=> shorter)
                 /\ streams' # streams =>
                        /\ streams'[li.xref].len = li.new_len
                        /\ streams'[li.xref].enc = "jpeg"
                        /\ \A y \in DOMAIN streams \ {li.xref} :
                               streams'[y] = streams[y]
                 /\ images_processed' = images_processed
                        + (IF streams' # streams THEN 1 ELSE 0)
        /\ (pc = "open" /\ pc' = "page") =>
               /\ images_processed' = 0
               /\ \A y \in DOMAIN streams' : streams'[y] = OrigStream(y)
        /\ (pc \in {"page", "image"} /\ pc' \in {"page", "image", "save"}
            /\ ~ImageProcessed) =>
               streams' = streams /\ images_processed' = images_processed
        /\ (pc = "save" /\ attempt_result' # <<>>
            /\ attempt_result'[1].success) =>
               attempt_result'[1].images_processed = images_processed ]_vars

\* After one replacement, a second encoding of the same image came out as
\* long as the stream extracted and the stream was kept.
C10_Witness ==
    /\ pc = "image" /\ last_img # <<>>
    /\ last_img[1].kind = "encoded"
    /\ last_img[1].new_len = last_img[1].extracted_len
    /\ ~last_img[1].replaced
    /\ streams[last_img[1].xref].enc = "jpeg"
    /\ images_processed = 1

\* Every <<quality, DPI>> of the two ladders, quality first, both descending.
LadderPairs ==
    [k \in 1..(Len(QUALITY_LEVELS) * Len(DPI_LEVELS)) |->
        <<QUALITY_LEVELS[((k - 1) \div Len(DPI_LEVELS)) + 1],
          DPI_LEVELS[((k - 1) % Len(DPI_LEVELS)) + 1]>>]

AboveFloors(p, cfg) == p[1] >= cfg.min_quality /\ p[2] >= cfg.min_dpi

\* The pairs of the ladders at or above a tolerance's floors, in ladder order.
AllowedPairs(cfg) == SelectSeq(LadderPairs, LAMBDA p : AboveFloors(p, cfg))

\* For every tolerance the pairs it allows.
Allowed == [t \in DOMAIN tolerance_config |-> AllowedPairs(tolerance_config[t])]

IsPrefix(s, t) == Len(s) <= Len(t) /\ s = SubSeq(t, 1, Len(s))

\* The positions of a compress() call inside the grid search.
GridPositions ==
    {"grid", "raised", "outer", "inner", "after_inner", "open", "page",
     "image", "save", "judge", "finish"}

C12_AnalysisErrorAborts ==
    (analysis # <<>> /\ analysis[1].error # "None") =>
        /\ pc = "done" /\ route = "analysis_error"
        /\ ~result[1].success
        /\ result[1].error = analysis[1].error
        /\ result[1].original_size = original_size
        /\ result[1].compressed_size = original_size
        /\ ~result[1].target_achieved
        /\ tried = <<>> /\ iteration = 0
        /\ n_saves = 0 /\ n_encodes = 0 /\ n_copies = 0
        /\ out_file = <<>> /\ leaked = 0 /\ ~handle_open

\* The input could not be opened by the classifier.
C12_Witness ==
    /\ route = "analysis_error" /\ pc = "done"
    /\ result[1].error = "Failed to open PDF"
    /\ original_size > target_size

\* C13 as stated: never more than one document handle open at a time, and
\* every handle opened has been closed when compress() returns.
C13_Original ==
    /\ handle_open => leaked = 0
    /\ pc = "done" => ~handle_open /\ leaked = 0

\* C19: no two attempts of a run use the same <<quality, DPI>>.
C19_NoRepeatedSettings ==
    \A i, j \in 1..Len(tried) : i < j => tried[i] # tried[j]

\* A strict run made its ten attempts, the first of which failed.
C19_Witness ==
    /\ Len(tried) = 10 /\ tolerance = "strict"
    /\ pc = "finish" /\ leaked > 0 /\ n_saves = 0

\* C20: the attempts made are, in order, the first pairs of the ladders taken
\* quality first, both descending, DPI restarting at 300 for every quality,
\* with the pairs below the tolerance's floors left out: every attempted pair
\* has quality >= min_quality and DPI >= min_dpi, and nothing is attempted at
\* or below a DPI that fell under the floor.
C20_LadderOrder ==
    GridRoute =>
        /\ IsPrefix(tried, Allowed[tolerance])
        /\ \A i \in 1..Len(tried) :
               /\ tried[i][1] >= config.min_quality
               /\ tried[i][2] >= config.min_dpi
        /\ pc \in {"open", "page", "image", "save", "judge"} =>
               tried[Len(tried)] = <<quality, dpi>>
        /\ \A i \in 1..(Len(tried) - 1) :
               \/ /\ tried[i + 1][1] = tried[i][1]
                  /\ tried[i + 1][2] < tried[i][2]
               \/ /\ tried[i + 1][1] < tried[i][1]
                  /\ tried[i + 1][2] = DPI_LEVELS[1]

\* A balanced run left the DPI ladder at its floor of 100 and went on with
\* the next quality at 300 DPI.
C20_Witness ==
    /\ tolerance = "balanced" /\ Len(tried) = 6
    /\ tried[5] = <<95, 100>> /\ tried[6] = <<85, 300>>

\* The content class by the rule of the specification.
ClassRule(image_percentage, text_count, page_count) ==
    IF image_percentage[1] > 70 * image_percentage[2] THEN "image-heavy"
    ELSE IF /\ image_percentage[1] < 20 * image_percentage[2]
            /\ text_count > 500 * Max(page_count, 1)
         THEN "text-heavy"
    ELSE "mixed"

\* C14: the content class of a profile is image-heavy when image_percentage
\* > 70, else text-heavy when image_percentage < 20 and text_character_count
\* / max(page_count, 1) > 500, else mixed; a percentage of exactly 70 is not
\* image-heavy, and exactly 20 percent or exactly 500 characters per page is
\* not text-heavy.
C14_ClassRule ==
    pc = "profiled" =>
        LET p   == ret[1]
            pct == p.image_percentage
        IN  /\ p.pdf_type = ClassRule(pct, p.text_character_count,
                                      p.page_count)
            /\ pct[1] = 70 * pct[2] => p.pdf_type # "image-heavy"
            /\ pct[1] = 20 * pct[2] => p.pdf_type # "text-heavy"
            /\ p.text_character_count = 500 * Max(p.page_count, 1) =>
                   p.pdf_type # "text-heavy"

\* A document with exactly 20 percent images and more than 500 characters a
\* page was classified mixed.
C14_Witness ==
    /\ pc = "profiled"
    /\ ret[1].image_percentage[1] = 20 * ret[1].image_percentage[2]
    /\ ret[1].page_count > 0
    /\ ret[1].text_character_count > 500 * ret[1].page_count
    /\ ret[1].pdf_type = "mixed"

\* C15 as stated: the image_percentage of every profile is total_image_bytes
\* / file_size * 100 and lies between 0 and 100.
C15_Original ==
    pc = "profiled" =>
        LET p == ret[1]
        IN  /\ p.image_percentage = <<p.total_image_bytes * 100, p.file_size>>
            /\ p.image_percentage[1] >= 0
            /\ p.image_percentage[1] <= 100 * p.image_percentage[2]

\* C16 as stated: 0.1 * file_size <= estimated_min_size <= estimated_max_size
\* in every profile.
C16_Original ==
    pc = "profiled" =>
        /\ ret[1].file_size <= 10 * ret[1].estimated_min_size
        /\ ret[1].estimated_min_size <= ret[1].estimated_max_size

\* The images of a list whose compression is kind, counted one by one.
RECURSIVE HowMany(_, _)
HowMany(images, kinds) ==
    IF images = <<>> THEN 0
    ELSE (IF Head(images).compression \in kinds THEN 1 ELSE 0)
         + HowMany(Tail(images), kinds)

\* C17 as stated: (0.5, 0.8) when at least 80% of the images are jpeg or jpg,
\* else (0.2, 0.5) when more than 50% are png, else (0.3, 0.7).
C17_Original ==
    pc = "profiled" =>
        LET im == ret[1].images
            n  == Len(im)
        IN  ret[1].reduction =
               IF n > 0 /\ 100 * HowMany(im, {"jpeg", "jpg"}) >= 80 * n
               THEN <<5, 8>>
               ELSE IF n > 0 /\ 100 * HowMany(im, {"png"}) > 50 * n
               THEN <<2, 5>>
               ELSE <<3, 7>>

\* C17 amended: (0.5, 0.8) when more than 80% of the images are jpeg or jpg
\* (exactly 80%, as 4 of 5, is not enough); else (0.2, 0.5) when more than
\* 50% are png; else (0.3, 0.7), also when there are no images.
C17_ReductionTable ==
    pc = "profiled" =>
        LET im == ret[1].images
            n  == Len(im)
        IN  /\ ret[1].reduction =
                  IF n > 0 /\ 100 * HowMany(im, {"jpeg", "jpg"}) > 80 * n
                  THEN <<5, 8>>
                  ELSE IF n > 0 /\ 100 * HowMany(im, {"png"}) > 50 * n
                  THEN <<2, 5>>
                  ELSE <<3, 7>>
            /\ n = 0 => ret[1].reduction = <<3, 7>>

\* Four of the five images of a document are jpeg and the pair chosen is
\* (0.3, 0.7).
C17_Witness ==
    /\ pc = "profiled"
    /\ Len(ret[1].images) = 5
    /\ HowMany(ret[1].images, {"jpeg", "jpg"}) = 4
    /\ ret[1].reduction = <<3, 7>>

\* The label by the table of the specification, r = compressed / original.
LabelRule(original, compressed, image_percentage, quality_used) ==
    IF 10 * compressed > 7 * original THEN "Excellent"
    ELSE IF 10 * compressed > 5 * original THEN "Good"
    ELSE IF 10 * compressed > 3 * original THEN "Fair"
    ELSE IF /\ image_percentage[1] > 70 * image_percentage[2]
            /\ quality_used < 50
         THEN "Acceptable"
    ELSE "Reduced"

\* The quality the returned result was produced with: the quality of its
\* attempt, 90 in the text-heavy pass.
QualityUsed ==
    IF result[1].attempt > 0 THEN tried[result[1].attempt][1] ELSE 90

\* C18: the scorer returns Excellent for r > 0.7, else Good for r > 0.5, else
\* Fair for r > 0.3, else Acceptable when image_percentage > 70 and the quality
\* is below 50, else Reduced, with r = compressed_size / original_size; and
\* every successful result compress() returns carries the label of its own
\* sizes, the image percentage of its document and the quality it used.
C18_QualityLabel ==
    /\ pc = "scored" =>
           ret[1] = LabelRule(args[1].original_size, args[1].compressed_size,
                        args[1].image_percentage, args[1].compression_level)
    /\ (pc = "done" /\ result[1].success) =>
           result[1].quality_estimate =
               LabelRule(result[1].original_size, result[1].compressed_size,
                         IF analysis = <<>> THEN <<0, 1>>
                         ELSE analysis[1].image_percentage,
                         QualityUsed)

\* The scorer was called with r exactly 0.7 and answered Good.
C18_Witness ==
    /\ pc = "scored"
    /\ 10 * args[1].compressed_size = 7 * args[1].original_size
    /\ ret = <<"Good">>

\* C23 as stated: when compress() returns success = TRUE the file at
\* output_path has the size the result reports.
C23_Original ==
    (pc = "done" /\ result[1].success) =>
        /\ out_file # <<>>
        /\ out_file[1].size = result[1].compressed_size

\* C24 as stated: the iterations field of every result the grid search
\* returns is the number of attempts the run executed.
C24_Original ==
    route \in {"early", "finish"} => result[1].iterations = Len(tried)

\* C25: every attempt uses quality 95 or 85; the search never stops at the
\* min_quality floor (the loops are left only with the budget spent); and no
\* result compress() returns carries the label Acceptable.
C25_QualityStaysHigh ==
    /\ GridRoute =>
           /\ \A i \in 1..Len(tried) : tried[i][1] \in {95, 85}
           /\ pc = "outer" =>
                  /\ qi <= Len(QUALITY_LEVELS)
                  /\ ~BelowMinQuality(quality, config)
           /\ pc = "finish" => BudgetExhausted(iteration, config)
    /\ result # <<>> => result[1].quality_estimate # "Acceptable"

\* An image-heavy document was brought to at most 30 percent of its size at
\* quality 95 or 85 and is labelled Reduced.
C25_Witness ==
    /\ pc = "done" /\ route = "early"
    /\ 10 * result[1].compressed_size <= 3 * result[1].original_size
    /\ analysis[1].pdf_type = "image-heavy"
    /\ result[1].quality_estimate = "Reduced"
    /\ tried[Len(tried)][1] = 85

\* C26 as stated: images_processed of a result never exceeds the image_count
\* of the profile, and no stream that an attempt has already replaced is
\* encoded again in that attempt.
C26_Original ==
    /\ (attempt_result # <<>> /\ attempt_result[1].success) =>
           attempt_result[1].images_processed <= analysis[1].image_count
    /\ (result # <<>> /\ result[1].success /\ analysis # <<>>) =>
           result[1].images_processed <= analysis[1].image_count
    /\ (last_img # <<>> /\ last_img[1].kind = "encoded") =>
           last_img[1].extracted_len = OrigStream(last_img[1].xref).len

\* C27: every attempt starts from the input file: the handle it opens holds
\* the input's streams whatever earlier attempts replaced or saved, with
\* images_processed = 0, and no step of compress() changes the input file.
C27_AttemptsIndependent ==
    [][ /\ (pc = "open" /\ pc' = "page") =>
               /\ DOMAIN streams' = Xrefs(doc)
               /\ \A x \in Xrefs(doc) : streams'[x] = OrigStream(x)
               /\ images_processed' = 0
        /\ doc' = doc /\ original_size' = original_size ]_vars

\* The second attempt holds the input's streams after the first attempt
\* replaced an image and saved a smaller file.
C27_Witness ==
    /\ pc = "image" /\ Len(tried) = 2 /\ last_img = <<>>
    /\ best_result # <<>> /\ best_result[1].images_processed = 1
    /\ out_file # <<>>
    /\ \A x \in Xrefs(doc) : streams[x] = OrigStream(x)

\* C28 as stated: every result compress() returns has compressed_size <=
\* original_size and a compression_ratio that is not negative.
C28_Original ==
    result # <<>> =>
        /\ result[1].compressed_size <= result[1].original_size
        /\ result[1].compression_ratio[1] >= 0

\* C29 as stated: a run with a tolerance name outside strict, balanced and
\* high_clarity never returns success = TRUE.
C29_Original ==
    (tolerance \notin DOMAIN tolerance_config /\ result # <<>>) =>
        ~result[1].success


\* The pages of document d that reference image x.
PagesOf(d, x) ==
    {p \in 1..Len(d.pages) : \E i \in 1..Len(d.pages[p]) : d.pages[p][i] = x}

RECURSIVE SumSizes(_)
SumSizes(images) ==
    IF images = <<>> THEN 0
    ELSE Head(images).size_bytes + SumSizes(Tail(images))

\* C22: in every profile no two entries of images have the same xref, also
\* when the image is referenced from several pages; each entry's page_number
\* is the first page that references its image; image_count is the number of
\* entries and total_image_bytes the sum of their size_bytes.
C22_EachImageOnce ==
    pc = "scanned" =>
        LET a == ret[1]
            d == args[1]
        IN  /\ \A i, j \in 1..Len(a.images) :
                   a.images[i].xref = a.images[j].xref => i = j
            /\ \A i \in 1..Len(a.images) :
                   /\ a.images[i].page_number \in PagesOf(d, a.images[i].xref)
                   /\ \A p \in PagesOf(d, a.images[i].xref) :
                          a.images[i].page_number <= p
            /\ a.image_count = Len(a.images)
            /\ a.total_image_bytes = SumSizes(a.images)

\* An image referenced twice on the first page and again on the second is
\* listed once, next to an image that cannot be extracted.
C22_Witness ==
    /\ pc = "scanned"
    /\ args[1].pages = <<<<2, 1>>, <<1, 1>>>>
    /\ args[1].unextractable = {2}
    /\ ret[1].image_count = 1
    /\ ret[1].images[1].page_number = 1
    /\ ret[1].total_image_bytes = MaxImgLen


Forward(s, t) ==
    \/ s = t
    \/ s = "starting" /\ t \in {"processing", "completed", "failed"}
    \/ s = "processing" /\ t \in {"completed", "failed"}

Terminal(job) == job.status \in {"completed", "failed"}

\* A download or report request was answered with a file or a result.
Served ==
    /\ request.phase = "returned"
    /\ request.kind \in {"download", "report"}
    /\ request.code = 200

\* C30: a job is registered as starting and its status only moves forward
\* along starting -> processing -> (completed | failed), processing possibly
\* skipped; the status, result and output_files of a completed or failed job
\* never change again, however the progress callbacks and the closing writes
\* of the threads interleave with status, download and report requests;
\* output_files is non-empty only for a completed job; a download or report
\* request is answered with a file or a result only for a completed job.
C30_JobsMoveForward ==
    /\ [](/\ \A j \in DOMAIN jobs :
                jobs[j].output_files # {} => jobs[j].status = "completed"
          /\ Served =>
                /\ request.job_id \in DOMAIN jobs
                /\ jobs[request.job_id].status = "completed"
                /\ request.kind = "report" =>
                      /\ request.body # <<>>
                      /\ request.body = jobs[request.job_id].result
                /\ request.kind = "download" =>
                      request.body[1] \in jobs[request.job_id].output_files)
    /\ [][/\ \A j \in DOMAIN jobs :
                /\ j \in DOMAIN jobs'
                /\ Forward(jobs[j].status, jobs'[j].status)
                /\ Terminal(jobs[j]) =>
                      /\ jobs'[j].status = jobs[j].status
                      /\ jobs'[j].result = jobs[j].result
                      /\ jobs'[j].output_files = jobs[j].output_files
          /\ \A j \in DOMAIN jobs' \ DOMAIN jobs :
                jobs'[j].status = "starting"]_vars

\* The first job completed and its text file was downloaded while the
\* thread of the second job was reporting progress.
C30_Witness ==
    /\ Len(jobs) = 2
    /\ jobs[1].status = "completed" /\ jobs[1].stage = "Complete"
    /\ jobs[1].output_files = {"compressed_pdf", "extracted_text"}
    /\ jobs[2].status = "processing"
    /\ Served /\ request.kind = "download" /\ request.job_id = 1
    /\ request.body = <<"extracted_text">>

====
